---- MODULE Spec2Model ----
(***************************************************************************)
(* Translation Framework Analysis Dashboard (streamlit_translate_3.py).    *)
(*                                                                         *)
(* The dashboard is a script that the UI framework re-runs from the top on *)
(* every user interaction.  The state that survives a re-run is the        *)
(* default CSV file on disk, the widgets (upload, checkbox, filters) and   *)
(* the two st.cache_data caches.  The data layer (preprocess_data,         *)
(* create_summary_stats, create_direction_analysis) is a set of pure       *)
(* functions over a table.                                                 *)
(*                                                                         *)
(* Two specifications:                                                     *)
(*   Spec      the re-run state machine of main()                          *)
(*   SpecData  the data layer applied to every table of a bounded family   *)
(***************************************************************************)
EXTENDS Integers, Sequences, FiniteSets, TLC

VARIABLES
    default_file,        \* the default CSV file on disk (or no file)
    uploaded_file,       \* st.sidebar.file_uploader: the upload (or none)
    use_default_file,    \* st.sidebar.checkbox("Use default file")
    cache_file,          \* st.cache_data of load_data_from_file, for the default path
    cache_upload,        \* st.cache_data of load_data_from_upload, per upload
    date_range,          \* st.sidebar.date_input of the last run
    selected_direction,  \* st.sidebar.selectbox of the last run
    source,              \* the branch of the source selection the last run took
    body_ran,            \* whether the last run executed a load body (cache miss)
    df_loaded,           \* what the load returned in the last run
    df_filtered,         \* the table that reached the aggregation in the last run
    stats,               \* create_summary_stats(df_filtered) of the last run
    direction_stats,     \* create_direction_analysis(df_filtered) of the last run
    messages,            \* st.error / st.warning / st.info of the last run
    outcome,             \* how the last run ended
    widened,             \* the last run shows a row that the run before filtered out
    raw,                 \* SpecData: the table under test
    once,                \* SpecData: preprocess_data(raw)
    twice,               \* SpecData: preprocess_data(preprocess_data(raw))
    phase                \* SpecData: "build", "preprocessed", "aggregated"

vars == <<default_file, uploaded_file, use_default_file, cache_file, cache_upload,
          date_range, selected_direction, source, body_ran, df_loaded, df_filtered, stats,
          direction_stats, messages, outcome, widened, raw, once, twice, phase>>

dataVars == <<raw, once, twice, phase>>

(***************************************************************************)
(* Cells.  A pandas cell is a string, a number, a bool, a timestamp, a     *)
(* date, or one of the two "absent" markers NaN / NaT.  Every cell has the *)
(* same three fields so that cells of different kinds compare (unequal).   *)
(***************************************************************************)
Str(s) == [k |-> "str", s |-> s, n |-> 0]
Num(n) == [k |-> "num", s |-> "", n |-> n]
Bool(b) == [k |-> "bool", s |-> "", n |-> IF b THEN 1 ELSE 0]
Timestamp(n) == [k |-> "ts", s |-> "", n |-> n]
DateCell(d) == [k |-> "date", s |-> "", n |-> d]
NaN == [k |-> "nan", s |-> "", n |-> 0]
NaT == [k |-> "nat", s |-> "", n |-> 0]

isna(c) == c.k \in {"nan", "nat"}

(***************************************************************************)
(* Column names are sequences of tokens: the name proper, and the          *)
(* formatting noise around it, one token per character of noise            *)
(* (" " or ",").  <<"Completed", " ", ",">> is the header "Completed ,".   *)
(***************************************************************************)
Col(name) == <<name>>

RECURSIVE lstrip(_)
lstrip(c) ==
    IF c # <<>> /\ Head(c) = " " THEN lstrip(Tail(c)) ELSE c

RECURSIVE rstrip(_, _)
rstrip(c, ch) ==
    IF c # <<>> /\ c[Len(c)] = ch THEN rstrip(SubSeq(c, 1, Len(c) - 1), ch) ELSE c

\* .str.strip(): leading and trailing whitespace
strip(c) == rstrip(lstrip(c), " ")

\* df.columns.str.strip().str.rstrip(',')
clean_column(c) == rstrip(strip(c), ",")

(***************************************************************************)
(* Tables.  A DataFrame is a set of column names and a sequence of rows,   *)
(* each row a function from the column names to cells.  None is the        *)
(* absent result of a failed load.                                         *)
(***************************************************************************)
DataFrame(cols, rows) == [none |-> FALSE, columns |-> cols, rows |-> rows]
None == [none |-> TRUE, columns |-> {}, rows |-> <<>>]

len(df) == Len(df.rows)

\* df[col]: the series of a column, one cell per row
series(df, col) == [i \in DOMAIN df.rows |-> df.rows[i][col]]

\* df[col] = values
assign(df, col, values) ==
    DataFrame(df.columns \cup {col},
              [i \in DOMAIN df.rows |->
                  [c \in df.columns \cup {col} |->
                      IF c = col THEN values[i] ELSE df.rows[i][c]]])

\* df.columns = names, names[c] the new name of column c
set_columns(df, names) ==
    DataFrame({names[c] : c \in df.columns},
              [i \in DOMAIN df.rows |->
                  [c2 \in {names[c] : c \in df.columns} |->
                      df.rows[i][CHOOSE c \in df.columns : names[c] = c2]]])

\* series.fillna(value)
fillna(c, value) == IF isna(c) THEN value ELSE c

\* series.map({'Yes': True, 'No': False}): a value that is no key of the
\* dict (a bool, another string, NaN) maps to NaN
map_yes_no(c) ==
    IF c.k = "str" /\ c.s = "Yes" THEN Bool(TRUE)
    ELSE IF c.k = "str" /\ c.s = "No" THEN Bool(FALSE)
    ELSE NaN

\* a mapping that leaves the missing values missing (no fillna)
convert_boolean_nofill(c) == map_yes_no(c)

\* df[col].map({'Yes': True, 'No': False}).fillna(False)
convert_boolean(c) == fillna(map_yes_no(c), Bool(FALSE))

(***************************************************************************)
(* The timestamp and score texts the model's CSV files use, with the value *)
(* each parses to.  A timestamp is counted in hours: day * 24 + hour.      *)
(***************************************************************************)
TimestampText ==
    ("2025-08-19 09:00" :> 19 * 24 + 9) @@
    ("2025-08-20 14:00" :> 20 * 24 + 14) @@
    ("2025-08-21 23:00" :> 21 * 24 + 23)

ScoreText == ("2" :> 2) @@ ("5" :> 5)

\* pd.to_datetime(series, errors='coerce')
to_datetime(c) ==
    IF c.k = "ts" THEN c
    ELSE IF c.k = "str" /\ c.s \in DOMAIN TimestampText THEN Timestamp(TimestampText[c.s])
    ELSE NaT

\* series.dt.hour
dt_hour(c) == IF c.k = "ts" THEN Num(c.n % 24) ELSE NaN

\* series.dt.date
dt_date(c) == IF c.k = "ts" THEN DateCell(c.n \div 24) ELSE NaT

\* pd.to_numeric(series, errors='coerce')
to_numeric(c) ==
    IF c.k = "num" THEN c
    ELSE IF c.k = "bool" THEN Num(c.n)
    ELSE IF c.k = "str" /\ c.s \in DOMAIN ScoreText THEN Num(ScoreText[c.s])
    ELSE NaN

\* series.astype(str)
astype_str(c) ==
    IF c.k = "str" THEN c.s
    ELSE IF c.k = "nan" THEN "nan"
    ELSE IF c.k = "nat" THEN "NaT"
    ELSE IF c.k = "bool" THEN (IF c.n = 1 THEN "True" ELSE "False")
    ELSE ToString(c.n)

\* from_.astype(str) + ' -> ' + to.astype(str)   (the arrow is U+2192)
translation_direction(from, to) ==
    Str(astype_str(from) \o " -> " \o astype_str(to))

(***************************************************************************)
(* preprocess_data.  Any exception (df is None, a KeyError for a missing   *)
(* From / To / Status column) is caught and None is returned.              *)
(***************************************************************************)
preprocess_columns(df) ==
    set_columns(df, [c \in df.columns |-> clean_column(c)])

preprocess_fill(df) ==
    LET a == assign(df, Col("From"),
                    [i \in DOMAIN df.rows |-> fillna(series(df, Col("From"))[i], Str("Unknown"))])
        b == assign(a, Col("To"),
                    [i \in DOMAIN a.rows |-> fillna(series(a, Col("To"))[i], Str("Unknown"))])
    IN  assign(b, Col("Status"),
               [i \in DOMAIN b.rows |-> fillna(series(b, Col("Status"))[i], Str("Unknown"))])

preprocess_booleans(df) ==
    LET a == IF Col("Completed") \in df.columns
             THEN assign(df, Col("Completed"),
                         [i \in DOMAIN df.rows |->
                             convert_boolean(series(df, Col("Completed"))[i])])
             ELSE df
    IN  IF Col("Timed Out") \in a.columns
        THEN assign(a, Col("Timed Out"),
                    [i \in DOMAIN a.rows |->
                        convert_boolean(series(a, Col("Timed Out"))[i])])
        ELSE a

preprocess_timestamp(df) ==
    IF Col("Timestamp") \in df.columns
    THEN LET a == assign(df, Col("Timestamp"),
                         [i \in DOMAIN df.rows |->
                             to_datetime(series(df, Col("Timestamp"))[i])])
             b == assign(a, Col("Hour"),
                         [i \in DOMAIN a.rows |-> dt_hour(series(a, Col("Timestamp"))[i])])
         IN  assign(b, Col("Date"),
                    [i \in DOMAIN b.rows |-> dt_date(series(b, Col("Timestamp"))[i])])
    ELSE df

preprocess_score(df) ==
    IF Col("Translation Score") \in df.columns
    THEN assign(df, Col("Translation Score"),
                [i \in DOMAIN df.rows |->
                    to_numeric(series(df, Col("Translation Score"))[i])])
    ELSE df

preprocess_direction(df) ==
    assign(df, Col("Translation Direction"),
           [i \in DOMAIN df.rows |->
               translation_direction(series(df, Col("From"))[i], series(df, Col("To"))[i])])

preprocess_data(df) ==
    IF df.none THEN None
    ELSE LET named == preprocess_columns(df)
         IN  IF ~({Col("From"), Col("To"), Col("Status")} \subseteq named.columns)
             THEN None
             ELSE preprocess_direction(
                      preprocess_score(
                          preprocess_timestamp(
                              preprocess_booleans(
                                  preprocess_fill(named)))))

(***************************************************************************)
(* Numbers computed by the aggregations: a fraction num/den (Python        *)
(* floats, kept exact here) or NaN.                                        *)
(***************************************************************************)
Number(n, d) == [nan |-> FALSE, num |-> n, den |-> d]
NaNNumber == [nan |-> TRUE, num |-> 0, den |-> 1]

\* round(x, digits) for x = n/d >= 0, as a count of 10^-digits units
\* (Python rounds a tie to the even neighbour)
round_units(n, d) ==
    LET q == n \div d
        r == n % d
    IN  IF 2 * r < d THEN q
        ELSE IF 2 * r > d THEN q + 1
        ELSE IF q % 2 = 0 THEN q ELSE q + 1

RECURSIVE masked(_, _)
\* the rows whose mask is True, in order
masked(rows, mask) ==
    IF rows = <<>> THEN <<>>
    ELSE (IF Head(mask) THEN <<Head(rows)>> ELSE <<>>) \o masked(Tail(rows), Tail(mask))

\* df[mask]: a new table of the rows the mask keeps; df is not changed
filter_rows(df, mask) == DataFrame(df.columns, masked(df.rows, mask))

RECURSIVE sum_cells(_, _)
\* series.sum(): NaN is skipped, True counts 1
sum_cells(rows, col) ==
    IF rows = <<>> THEN 0
    ELSE (IF Head(rows)[col].k \in {"num", "bool"} THEN Head(rows)[col].n ELSE 0)
         + sum_cells(Tail(rows), col)

RECURSIVE count_cells(_, _)
\* series.count(): the number of non-absent values
count_cells(rows, col) ==
    IF rows = <<>> THEN 0
    ELSE (IF isna(Head(rows)[col]) THEN 0 ELSE 1) + count_cells(Tail(rows), col)

\* a mean that takes "no value" for zero
mean_or_zero(df, col) ==
    IF count_cells(df.rows, col) = 0 THEN Number(0, 1)
    ELSE Number(sum_cells(df.rows, col), count_cells(df.rows, col))

\* series.mean(): NaN when no non-absent value is left
mean(df, col) ==
    IF count_cells(df.rows, col) = 0 THEN NaNNumber
    ELSE Number(sum_cells(df.rows, col), count_cells(df.rows, col))

\* a rate over the rows that are not flagged, instead of over all rows
rate_of_rest(count, total) ==
    IF total > 0 THEN Number(count * 100, total - count) ELSE Number(0, 1)

\* (count / total * 100) if total > 0 else 0
rate(count, total) ==
    IF total > 0 THEN Number(count * 100, total) ELSE Number(0, 1)

create_summary_stats(df) ==
    LET total_translations == len(df)
        completed_translations ==
            IF Col("Completed") \in df.columns
            THEN sum_cells(df.rows, Col("Completed")) ELSE 0
        timed_out_translations ==
            IF Col("Timed Out") \in df.columns
            THEN sum_cells(df.rows, Col("Timed Out")) ELSE 0
    IN  [total_translations |-> total_translations,
         completed_translations |-> completed_translations,
         timed_out_translations |-> timed_out_translations,
         completion_rate |-> rate(completed_translations, total_translations),
         timeout_rate |-> rate(timed_out_translations, total_translations),
         avg_score |-> IF Col("Translation Score") \in df.columns
                       THEN mean(df, Col("Translation Score"))
                       ELSE Number(0, 1)]

\* a grouping that leaves out the rows whose From or To was missing
groupby_keys_known(df) ==
    {r[Col("Translation Direction")] : r \in
        {df.rows[i] : i \in {j \in DOMAIN df.rows :
            /\ astype_str(df.rows[j][Col("From")]) # "Unknown"
            /\ astype_str(df.rows[j][Col("To")]) # "Unknown"}}}

\* the keys of df.groupby('Translation Direction'): the distinct non-absent values
groupby_keys(df) ==
    {c \in {df.rows[i][Col("Translation Direction")] : i \in DOMAIN df.rows} : ~isna(c)}

\* the group of one key
groupby_group(df, key) ==
    filter_rows(df, [i \in DOMAIN df.rows |-> series(df, Col("Translation Direction"))[i] = key])

\* one record per direction; the records are kept as a set (groupby yields
\* them sorted by label)
create_direction_analysis(df) ==
    {LET group == groupby_group(df, direction)
         total == len(group)
         completed == IF Col("Completed") \in group.columns
                      THEN sum_cells(group.rows, Col("Completed")) ELSE 0
         timed_out == IF Col("Timed Out") \in group.columns
                      THEN sum_cells(group.rows, Col("Timed Out")) ELSE 0
         avg_score == IF Col("Translation Score") \in group.columns
                      THEN mean(group, Col("Translation Score")) ELSE Number(0, 1)
     IN  [TranslationDirection |-> direction.s,
          Total |-> total,
          Completed |-> completed,
          TimedOut |-> timed_out,
          CompletionRate |-> IF total > 0
                             THEN Number(round_units(completed * 100 * 10, total), 10)
                             ELSE Number(0, 1),
          TimeoutRate |-> IF total > 0
                          THEN Number(round_units(timed_out * 100 * 10, total), 10)
                          ELSE Number(0, 1),
          AvgScore |-> IF ~avg_score.nan
                       THEN Number(round_units(avg_score.num * 100, avg_score.den), 100)
                       ELSE Number(0, 1)]
     : direction \in groupby_keys(df)}

(***************************************************************************)
(* Files.  A CSV source (the default file or an upload) either parses to a *)
(* raw table or makes pd.read_csv raise.                                   *)
(***************************************************************************)
File(valid, table) == [exists |-> TRUE, valid |-> valid, table |-> table]
NoFile == [exists |-> FALSE, valid |-> FALSE, table |-> None]

\* a load that answers an unreadable source with an empty table
load_data_empty_on_error(f) ==
    IF ~f.valid THEN DataFrame({}, <<>>) ELSE preprocess_data(f.table)

\* the body of load_data_from_file / load_data_from_upload: read_csv raises
\* on an unreadable source, and a None of preprocess_data is passed on
load_data(f) ==
    IF ~f.valid THEN None ELSE preprocess_data(f.table)

\* the st.error calls of the body
load_errors(f, what) ==
    IF ~f.valid THEN {what}
    ELSE IF preprocess_data(f.table).none THEN {"Error preprocessing data"}
    ELSE {}

(***************************************************************************)
(* st.cache_data: the first call with a key runs the body and stores its   *)
(* return value and its st.error elements; a later call with that key      *)
(* replays both and does not run the body.                                 *)
(***************************************************************************)
NoEntry == [hit |-> FALSE, value |-> None, messages |-> {}]

cache_data(entry, value, errors) ==
    IF entry.hit THEN entry ELSE [hit |-> TRUE, value |-> value, messages |-> errors]

\* load_data_from_file(file_path): the key is the path string
load_data_from_file(entry, f) ==
    cache_data(entry, load_data(f), load_errors(f, "Error loading data from file"))

\* load_data_from_upload(uploaded_file): the key is the upload (name and bytes)
load_data_from_upload(entry, f) ==
    cache_data(entry, load_data(f), load_errors(f, "Error loading uploaded data"))

(***************************************************************************)
(* main: source selection.                                                 *)
(***************************************************************************)
\* a selection that prefers an upload whenever there is one
select_source_upload_first(uploaded, use_default) ==
    IF uploaded.exists THEN "upload"
    ELSE IF use_default THEN "default"
    ELSE "prompt"

select_source(uploaded, use_default) ==
    IF uploaded.exists /\ ~use_default THEN "upload"
    ELSE IF use_default THEN "default"
    ELSE "prompt"

(***************************************************************************)
(* main: filters.                                                          *)
(***************************************************************************)
\* 'Timestamp' in df.columns and not df['Timestamp'].isna().all()
has_date_filter(t) ==
    /\ Col("Timestamp") \in t.columns
    /\ \E i \in DOMAIN t.rows : ~isna(t.rows[i][Col("Timestamp")])

timestamps(t) ==
    {t.rows[i][Col("Timestamp")].n : i \in {j \in DOMAIN t.rows :
                                            ~isna(t.rows[j][Col("Timestamp")])}}

\* df['Timestamp'].min().date(), df['Timestamp'].max().date()
min_date(t) == (CHOOSE x \in timestamps(t) : \A y \in timestamps(t) : x <= y) \div 24
max_date(t) == (CHOOSE x \in timestamps(t) : \A y \in timestamps(t) : x >= y) \div 24

\* what st.sidebar.date_input can return: nothing, one date, or a range,
\* each date between min_value and max_value
date_inputs(t) ==
    {<<>>}
    \cup {<<d>> : d \in min_date(t)..max_date(t)}
    \cup UNION {{<<s, e>> : e \in s..max_date(t)} : s \in min_date(t)..max_date(t)}

\* a comparison with an absent date is False
date_ge(c, d) == c.k = "date" /\ c.n >= d
date_le(c, d) == c.k = "date" /\ c.n <= d
date_lt(c, d) == c.k = "date" /\ c.n < d
date_eq(c, d) == c.k = "date" /\ c.n = d

\* a range filter whose upper bound is exclusive
apply_date_filter_exclusive(t, range) ==
    IF Len(range) = 2
    THEN filter_rows(t, [i \in DOMAIN t.rows |->
                            /\ date_ge(dt_date(series(t, Col("Timestamp"))[i]), range[1])
                            /\ date_lt(dt_date(series(t, Col("Timestamp"))[i]), range[2])])
    ELSE IF Len(range) = 1
    THEN filter_rows(t, [i \in DOMAIN t.rows |->
                            date_eq(dt_date(series(t, Col("Timestamp"))[i]), range[1])])
    ELSE t

apply_date_filter(t, range) ==
    IF Len(range) = 2
    THEN filter_rows(t, [i \in DOMAIN t.rows |->
                            /\ date_ge(dt_date(series(t, Col("Timestamp"))[i]), range[1])
                            /\ date_le(dt_date(series(t, Col("Timestamp"))[i]), range[2])])
    ELSE IF Len(range) = 1
    THEN filter_rows(t, [i \in DOMAIN t.rows |->
                            date_eq(dt_date(series(t, Col("Timestamp"))[i]), range[1])])
    ELSE t

\* ['All'] + sorted(unique_directions.tolist()), as a set
directions(t) ==
    {"All"} \cup {t.rows[i][Col("Translation Direction")].s : i \in DOMAIN t.rows}

apply_direction_filter(t, direction) ==
    IF direction # "All"
    THEN filter_rows(t, [i \in DOMAIN t.rows |->
                            series(t, Col("Translation Direction"))[i] = Str(direction)])
    ELSE t

\* filters that start from the view of the run before
filter_previous_view(loaded, range, direction) ==
    apply_direction_filter(
        apply_date_filter(IF outcome = "rendered" THEN df_filtered ELSE loaded, range), direction)

\* the table that reaches the aggregation: both filters, from the loaded table
filter_view(loaded, range, direction) ==
    apply_direction_filter(
        IF has_date_filter(loaded) THEN apply_date_filter(loaded, range) ELSE loaded,
        direction)

(***************************************************************************)
(* The CSV files of the model.                                             *)
(***************************************************************************)
AllColumns ==
    {Col("From"), Col("To"), Col("Status"), Col("Completed"), Col("Timed Out"),
     Col("Timestamp"), Col("Translation Score")}

Row(from, to, status, completed, timed_out, timestamp, score) ==
    (Col("From") :> from) @@ (Col("To") :> to) @@ (Col("Status") :> status) @@
    (Col("Completed") :> completed) @@ (Col("Timed Out") :> timed_out) @@
    (Col("Timestamp") :> timestamp) @@ (Col("Translation Score") :> score)

BareRow(from, to, status) ==
    (Col("From") :> from) @@ (Col("To") :> to) @@ (Col("Status") :> status)

\* two dated rows with a day between them, and a row with nothing parsable
CsvResults ==
    File(TRUE, DataFrame(AllColumns,
        <<Row(Str("EN"), Str("FR"), Str("Done"), Str("Yes"), Str("No"),
              Str("2025-08-19 09:00"), Str("5")),
          Row(Str("EN"), Str("FR"), Str("Timeout"), Str("No"), Str("Yes"),
              Str("2025-08-21 23:00"), Str("abc")),
          Row(NaN, Str("FR"), NaN, Str("Yes"), NaN,
              Str("not a date"), Str("2"))>>))

CsvOther ==
    File(TRUE, DataFrame(AllColumns,
        <<Row(Str("DE"), Str("EN"), Str("Done"), Str("Yes"), Str("No"),
              Str("2025-08-20 14:00"), Str("2")),
          Row(Str("EN"), Str("FR"), Str("Done"), Str("No"), Str("No"),
              Str("2025-08-20 14:00"), Str("5"))>>))

\* only the three required columns
CsvBare ==
    File(TRUE, DataFrame({Col("From"), Col("To"), Col("Status")},
        <<BareRow(Str("EN"), NaN, Str("Done")), BareRow(Str("EN"), Str("FR"), NaN)>>))

\* a header and no row
CsvHeaderOnly == File(TRUE, DataFrame(AllColumns, <<>>))

\* no From column: preprocess_data raises a KeyError
CsvNoFrom ==
    File(TRUE, DataFrame({Col("To"), Col("Status")},
        <<(Col("To") :> Str("FR")) @@ (Col("Status") :> Str("Done"))>>))

\* pd.read_csv raises
CsvMalformed == File(FALSE, None)

DefaultFiles == {CsvResults, CsvOther, CsvHeaderOnly, CsvNoFrom, CsvMalformed, NoFile}
Uploads == {CsvBare, CsvMalformed}

(***************************************************************************)
(* main: one run of the script, with the upload and the checkbox as they   *)
(* are after the interaction that caused the run.                          *)
(***************************************************************************)
NoStats ==
    [total_translations |-> 0, completed_translations |-> 0, timed_out_translations |-> 0,
     completion_rate |-> Number(0, 1), timeout_rate |-> Number(0, 1),
     avg_score |-> Number(0, 1)]

\* a return before the filters: nothing is filtered, aggregated or rendered
Stop(how, said) ==
    /\ outcome' = how
    /\ messages' = said
    /\ date_range' = <<>>
    /\ selected_direction' = "All"
    /\ df_filtered' = None
    /\ stats' = NoStats
    /\ direction_stats' = {}
    /\ widened' = FALSE

\* the value of the date widget: (min_date, max_date) when the widget is new
\* (the run before did not show it), and afterwards whatever the user has set
date_input(loaded) ==
    IF ~has_date_filter(loaded) THEN {<<>>}
    ELSE IF outcome # "rendered" THEN {<<min_date(loaded), max_date(loaded)>>}
    ELSE date_inputs(loaded)

\* the value of the direction widget: 'All' (index 0) when the widget is new
selectbox(options) ==
    IF outcome # "rendered" THEN {"All"} ELSE options

\* lines 151-286: filters, statistics, tabs
Render(loaded, said) ==
    \E range \in date_input(loaded) :
        \E direction \in selectbox(directions(filter_view(loaded, range, "All"))) :
            LET view == filter_view(loaded, range, direction)
            IN  /\ outcome' = "rendered"
                /\ messages' = said
                /\ date_range' = range
                /\ selected_direction' = direction
                /\ df_filtered' = view
                /\ stats' = create_summary_stats(view)
                /\ direction_stats' = create_direction_analysis(view)
                /\ widened' = /\ outcome = "rendered"
                              /\ df_loaded = loaded
                              /\ \E i \in DOMAIN view.rows :
                                    \A j \in DOMAIN df_filtered.rows :
                                        df_filtered.rows[j] # view.rows[i]

Main(uploaded, use_default) ==
    LET src == select_source(uploaded, use_default)
        found == src = "default" /\ default_file.exists
        file_entry == IF found THEN load_data_from_file(cache_file, default_file)
                      ELSE cache_file
        upload_entry == IF src = "upload"
                        THEN load_data_from_upload(cache_upload[uploaded], uploaded)
                        ELSE NoEntry
        loaded == IF src = "upload" THEN upload_entry.value
                  ELSE IF found THEN file_entry.value
                  ELSE None
        said == IF src = "upload" THEN upload_entry.messages
                ELSE IF found THEN file_entry.messages
                ELSE IF src = "default" THEN {"Default file not found"}
                ELSE {}
    IN  /\ uploaded_file' = uploaded
        /\ use_default_file' = use_default
        /\ source' = src
        /\ cache_file' = file_entry
        /\ cache_upload' = IF src = "upload"
                           THEN [cache_upload EXCEPT ![uploaded] = upload_entry]
                           ELSE cache_upload
        /\ body_ran' = \/ src = "upload" /\ ~cache_upload[uploaded].hit
                       \/ found /\ ~cache_file.hit
        /\ df_loaded' = loaded
        /\ IF src = "prompt"
           THEN Stop("prompt", {"Please upload a CSV file or check 'Use default file'"})
           ELSE IF loaded.none \/ len(loaded) = 0
           THEN Stop("nodata", said \cup {"No valid data loaded"})
           ELSE Render(loaded, said)
        /\ UNCHANGED <<default_file, dataVars>>

(***************************************************************************)
(* The events.  Every interaction with a widget re-runs main.              *)
(***************************************************************************)
\* the default file is written, replaced or removed on disk (no re-run)
WriteDefaultFile ==
    \E f \in DefaultFiles \ {default_file} :
        /\ default_file' = f
        /\ UNCHANGED <<uploaded_file, use_default_file, cache_file, cache_upload,
                       date_range, selected_direction, source, body_ran, df_loaded,
                       df_filtered, stats, direction_stats, messages, outcome, widened,
                       dataVars>>

UploadFile == \E f \in Uploads \ {uploaded_file} : Main(f, use_default_file)

RemoveUpload == uploaded_file.exists /\ Main(NoFile, use_default_file)

ToggleUseDefault == Main(uploaded_file, ~use_default_file)

\* a filter widget is changed, or the page is reloaded
Rerun == Main(uploaded_file, use_default_file)

Init ==
    /\ default_file \in DefaultFiles
    /\ uploaded_file = NoFile
    /\ use_default_file = TRUE
    /\ cache_file = NoEntry
    /\ cache_upload = [f \in Uploads |-> NoEntry]
    /\ date_range = <<>>
    /\ selected_direction = "All"
    /\ source = "none"
    /\ body_ran = FALSE
    /\ df_loaded = None
    /\ df_filtered = None
    /\ stats = NoStats
    /\ direction_stats = {}
    /\ messages = {}
    /\ outcome = "init"
    /\ widened = FALSE
    /\ raw = None
    /\ once = None
    /\ twice = None
    /\ phase = "off"

Next ==
    \/ WriteDefaultFile
    \/ UploadFile
    \/ RemoveUpload
    \/ ToggleUseDefault
    \/ Rerun

Spec == Init /\ [][Next]_vars

(***************************************************************************)
(* SpecData: the data layer on every table of a bounded family.  A raw     *)
(* table is built row by row over one of the header sets, preprocessed     *)
(* (once, and again), and aggregated.                                      *)
(***************************************************************************)
MaxRows == 2

\* the name proper of a header
column_base(c) == CHOOSE t \in {c[i] : i \in DOMAIN c} : t \notin {" ", ","}

\* what a CSV cell of a column can hold, by the column
CellTexts(name) ==
    IF name = "From" THEN {Str("EN"), NaN}
    ELSE IF name = "To" THEN {Str("FR"), NaN}
    ELSE IF name = "Status" THEN {NaN}
    ELSE IF name = "Completed" THEN {Str("Yes"), Str("No"), Str("Maybe"), NaN}
    ELSE IF name = "Timed Out" THEN {Str("Yes"), NaN}
    ELSE IF name = "Timestamp"
    THEN {Str("2025-08-19 09:00"), Str("2025-08-20 14:00"), Str("not a date")}
    ELSE {Str("2"), Str("5"), Str("abc")}

HeaderSets ==
    {
      \* the flags
      {Col("From"), Col("To"), Col("Completed"), Col("Timed Out"), Col("Status")},
      \* the timestamp and the score
      {Col("From"), Col("To"), Col("Status"), Col("Timestamp"), Col("Translation Score")},
      \* the required columns alone
      {Col("From"), Col("To"), Col("Status")},
      \* no From column
      {Col("To"), Col("Status"), Col("Completed")},
      \* headers with noise: " From", "To ", "Status,", "Completed ,", "Timed Out,,"
      {<<" ", "From">>, <<"To", " ">>, <<"Status", ",">>, <<"Completed", " ", ",">>,
       <<"Timed Out", ",", ",">>}
    }

\* every row over the headers cols
RECURSIVE RawRows(_)
RawRows(cols) ==
    IF cols = {} THEN {<<>>}
    ELSE LET c == CHOOSE x \in cols : TRUE
         IN  {(c :> v) @@ r : v \in CellTexts(column_base(c)), r \in RawRows(cols \ {c})}

InitData ==
    /\ default_file = NoFile
    /\ uploaded_file = NoFile
    /\ use_default_file = TRUE
    /\ cache_file = NoEntry
    /\ cache_upload = [f \in Uploads |-> NoEntry]
    /\ date_range = <<>>
    /\ selected_direction = "All"
    /\ source = "none"
    /\ body_ran = FALSE
    /\ df_loaded = None
    /\ df_filtered = None
    /\ stats = NoStats
    /\ direction_stats = {}
    /\ messages = {}
    /\ outcome = "init"
    /\ widened = FALSE
    /\ raw \in {DataFrame(cols, <<>>) : cols \in HeaderSets}
    /\ once = None
    /\ twice = None
    /\ phase = "build"

dataOnly == <<default_file, uploaded_file, use_default_file, cache_file, cache_upload,
              date_range, selected_direction, source, body_ran, df_loaded, df_filtered,
              messages, outcome, widened>>

\* one more row in the CSV
AddRow ==
    /\ phase = "build"
    /\ len(raw) < MaxRows
    /\ \E r \in RawRows(raw.columns) :
          raw' = DataFrame(raw.columns, Append(raw.rows, r))
    /\ UNCHANGED <<once, twice, phase, stats, direction_stats, dataOnly>>

\* preprocess_data(df), and preprocess_data of what it returned
Preprocess ==
    /\ phase = "build"
    /\ once' = preprocess_data(raw)
    /\ twice' = preprocess_data(preprocess_data(raw))
    /\ phase' = "preprocessed"
    /\ UNCHANGED <<raw, stats, direction_stats, dataOnly>>

\* create_summary_stats(df) and create_direction_analysis(df)
Aggregate ==
    /\ phase = "preprocessed"
    /\ ~once.none
    /\ stats' = create_summary_stats(once)
    /\ direction_stats' = create_direction_analysis(once)
    /\ phase' = "aggregated"
    /\ UNCHANGED <<raw, once, twice, dataOnly>>

NextData ==
    \/ AddRow
    \/ Preprocess
    \/ Aggregate

SpecData == InitData /\ [][NextData]_vars

(***************************************************************************)
(* Properties.                                                             *)
(***************************************************************************)
\* a step of main (the default file is as it was); a write to the file is not
RunStep == default_file' = default_file

\* the source the last run read
InputOf(src, uploaded, file) == IF src = "upload" THEN uploaded ELSE file

\* C1: a load never returns stale data: in every run that loads, the table the
\* load returns is the one a fresh read and preprocess of the current input
\* (the default file as it is now on disk, or the current upload) produces.
C1_NeverStale ==
    [][RunStep =>
        /\ (source' = "default" /\ default_file'.exists)
              => df_loaded' = load_data(default_file')
        /\ source' = "upload" => df_loaded' = load_data(uploaded_file')]_vars

\* C2: preprocess_data is idempotent: the second application returns what the
\* first returned.
C2_Idempotent == phase # "build" => twice = once

\* C3: in every run that reaches the aggregation, avg_score is a number: the
\* mean of the non-absent scores, and 0 when the column is absent or no
\* non-absent score is left (a zero-row view included).
C3_AvgScoreDefined ==
    outcome = "rendered" =>
        /\ ~stats.avg_score.nan
        /\ stats.avg_score =
              IF Col("Translation Score") \in df_filtered.columns
              THEN mean_or_zero(df_filtered, Col("Translation Score"))
              ELSE Number(0, 1)

\* the row predicate of the current filters, over the loaded table
C4_Keeps(r) ==
    /\ (has_date_filter(df_loaded) /\ Len(date_range) = 2) =>
          /\ r[Col("Date")].k = "date"
          /\ date_range[1] <= r[Col("Date")].n
          /\ r[Col("Date")].n <= date_range[2]
    /\ (has_date_filter(df_loaded) /\ Len(date_range) = 1) =>
          /\ r[Col("Date")].k = "date"
          /\ r[Col("Date")].n = date_range[1]
    /\ selected_direction # "All" =>
          r[Col("Translation Direction")].s = selected_direction

C4_ViewIsFilterOfLoaded ==
    outcome = "rendered" =>
        /\ df_filtered = DataFrame(df_loaded.columns, SelectSeq(df_loaded.rows, C4_Keeps))
        /\ source = "default" => df_loaded = cache_file.value
        /\ source = "upload" => df_loaded = cache_upload[uploaded_file].value

C4_CacheNotMutated ==
    /\ cache_file.hit => cache_file' = cache_file
    /\ \A f \in Uploads : cache_upload[f].hit => cache_upload'[f] = cache_upload[f]

\* C4: filters never compound: after any sequence of re-runs the table that
\* reaches the aggregation is the current date-range and direction filters
\* applied to the full cached table, and a cached table is never changed.
C4_FiltersNeverCompound ==
    /\ []C4_ViewIsFilterOfLoaded
    /\ [][C4_CacheNotMutated]_vars

\* a run that shows a row the run before had filtered out of the same table
C4_Witness ==
    /\ outcome = "rendered"
    /\ widened
    /\ Len(date_range) > 0
    /\ len(df_filtered) < len(df_loaded)

InRange(x) == ~x.nan /\ x.den > 0 /\ 0 <= x.num /\ x.num <= 100 * x.den

\* C5: completion_rate and timeout_rate lie in [0, 100], and are exactly 0
\* for a table of zero rows.
C5_RatesInRange ==
    phase = "aggregated" =>
        /\ InRange(stats.completion_rate)
        /\ InRange(stats.timeout_rate)
        /\ len(once) = 0 =>
              /\ stats.completion_rate.num = 0
              /\ stats.timeout_rate.num = 0

\* the statistics of a table with the flag columns and no row
C5_Witness ==
    /\ phase = "aggregated"
    /\ len(once) = 0
    /\ {Col("Completed"), Col("Timed Out")} \subseteq once.columns

\* whether reading or preprocessing the source raises
C6_Raises(f) ==
    \/ ~f.valid
    \/ ~({Col("From"), Col("To"), Col("Status")}
            \subseteq {clean_column(c) : c \in f.table.columns})

\* C6: when the read or the preprocessing raises in a run, the load returns
\* None, the error is reported, and main stops with the 'no valid data'
\* warning before any filter, aggregation or rendering.
C6_ErrorYieldsNone ==
    [][(RunStep /\ body_ran'
        /\ C6_Raises(InputOf(source', uploaded_file', default_file'))) =>
            /\ df_loaded' = None
            /\ outcome' = "nodata"
            /\ messages' \cap {"Error loading data from file",
                               "Error loading uploaded data",
                               "Error preprocessing data"} # {}
            /\ "No valid data loaded" \in messages'
            /\ df_filtered' = None
            /\ stats' = NoStats
            /\ direction_stats' = {}]_vars

\* a load whose preprocessing raised
C6_Witness ==
    /\ body_ran
    /\ outcome = "nodata"
    /\ "Error preprocessing data" \in messages

RECURSIVE SumTotal(_)
SumTotal(records) ==
    IF records = {} THEN 0
    ELSE LET x == CHOOSE y \in records : TRUE
         IN  x.Total + SumTotal(records \ {x})

\* C7: the Total fields of the direction records sum to total_translations.
C7_TotalsAddUp ==
    phase = "aggregated" => SumTotal(direction_stats) = stats.total_translations

\* two directions, one of them with a missing language
C7_Witness ==
    /\ phase = "aggregated"
    /\ Cardinality(direction_stats) >= 2
    /\ \E x \in direction_stats : x.TranslationDirection = "Unknown -> FR"

C8_FullSpan ==
    /\ outcome = "rendered"
    /\ has_date_filter(df_loaded)
    /\ date_range = <<min_date(df_loaded), max_date(df_loaded)>>
    /\ selected_direction = "All"

\* C8: with the range from the minimum to the maximum date, the filtered table
\* is the loaded table without the rows whose Date is absent.
C8_FullSpanKeepsDated ==
    C8_FullSpan =>
        df_filtered = DataFrame(df_loaded.columns,
                                SelectSeq(df_loaded.rows, LAMBDA r : ~isna(r[Col("Date")])))

\* the full span over a table with dated rows on two days and an undated row
C8_Witness ==
    /\ C8_FullSpan
    /\ min_date(df_loaded) < max_date(df_loaded)
    /\ len(df_filtered) >= 2
    /\ len(df_filtered) < len(df_loaded)

\* the raw cell of row i under the header that cleans to the column col
RawCell(i, col) == raw.rows[i][CHOOSE c \in raw.columns : clean_column(c) = col]

\* C9: after a successful preprocess_data every Completed and Timed Out value
\* is a bool, True exactly for the text 'Yes'; without the column nothing
\* raises and no row counts as completed / timed out.
C9_FlagsAreBoolean ==
    (phase # "build" /\ ~once.none) =>
        /\ \A col \in {Col("Completed"), Col("Timed Out")} :
              col \in once.columns =>
                 \A i \in DOMAIN once.rows :
                    /\ once.rows[i][col].k = "bool"
                    /\ once.rows[i][col].n = 1 <=> RawCell(i, col) = Str("Yes")
        /\ (phase = "aggregated" /\ Col("Completed") \notin once.columns)
              => stats.completed_translations = 0
        /\ (phase = "aggregated" /\ Col("Timed Out") \notin once.columns)
              => stats.timed_out_translations = 0

\* a Completed column with a 'Yes', and a missing cell
C9_Witness ==
    /\ phase = "preprocessed"
    /\ ~once.none
    /\ Col("Completed") \in raw.columns
    /\ \E i \in DOMAIN raw.rows : raw.rows[i][Col("Completed")] = Str("Yes")
    /\ \E i \in DOMAIN raw.rows : raw.rows[i][Col("Completed")] = NaN

\* C10: the source selection of main: the upload is loaded iff there is one
\* and the checkbox is unchecked; with the checkbox checked only the default
\* path is tried; the prompt is reached iff there is no upload and the
\* checkbox is unchecked; every run ends in one of the three ways.
C10_SourceSelection ==
    outcome # "init" =>
        /\ source = "upload" <=> (uploaded_file.exists /\ ~use_default_file)
        /\ source = "upload" => df_loaded = load_data(uploaded_file)
        /\ use_default_file =>
              /\ source = "default"
              /\ df_loaded.none \/ df_loaded = cache_file.value
              /\ "Default file not found" \in messages =>
                    outcome = "nodata" /\ df_loaded.none
        /\ outcome = "prompt" <=> (~uploaded_file.exists /\ ~use_default_file)
        /\ outcome \in {"prompt", "nodata", "rendered"}

\* the checkbox checked, an upload present, and no default file
C10_Witness ==
    /\ use_default_file
    /\ uploaded_file.exists
    /\ uploaded_file.valid
    /\ "Default file not found" \in messages
    /\ outcome = "nodata"

====
